---- MODULE Spec2Model ----
(***************************************************************************)
(* bshell (src/src/main.c): the interactive loop of main, the tokenizer    *)
(* inputToCommand, the redirection extractor setup_redirects, freeCommand, *)
(* the cd builtin, the SIGINT handler, and the child path (apply_redirects,*)
(* signal, execvp) with the files it opens, as a state machine.            *)
(*                                                                         *)
(* Text is a sequence of one-character strings.  A pointer to a token is   *)
(* the number of the strdup that made it (1, 2, ...); NULL is 0.           *)
(***************************************************************************)
EXTENDS Integers, Sequences, FiniteSets, TLC

VARIABLES
    pc,         \* where main is (labels below)
    handler,    \* TRUE once sigaction(SIGINT, sigint_handler) is installed
    jump_flag,  \* static volatile sig_atomic_t jump_flag
    env,        \* static sigjmp_buf env: "unset" or "set"
    cwd,        \* the process's working directory
    input,      \* char *input: the line readline returned
    tok,        \* the text of the token allocations of this line, by pointer
    command,    \* char **command: the array, pointers then NULL (stale slots kept)
    redir,      \* struct redirect_info redir
    heap,       \* the allocations of this line that are live
    leaked,     \* what the iteration that just ended never freed (until the next starts)
    children,   \* the child processes that exist, by slot
    child_pid,  \* pid_t child_pid
    out,        \* the last MaxLog things the shell wrote to its streams
    exitStatus, \* the shell's exit status, -1 while it runs
    prev,       \* the line the iteration that last ended had read (NoLine after a jump)
    jumped_from,\* where main was when SIGINT last made it jump, until a line is read
    files,      \* the regular files, by path: whether each exists and what it holds
    fds,        \* what the shell's descriptors 0, 1 and 2 are open on
    script      \* the lines the user may type in this session

vars ==
    <<pc, handler, jump_flag, env, cwd, input, tok, command, redir, heap,
      leaked, children, child_pid, out, exitStatus, prev, jumped_from, files,
      fds, script>>

----------------------------------------------------------------------------
(* Bounds *)

MaxLineLen == 5      \* SpecTok: length of the lines drawn
MaxLongTokens == 9   \* SpecTok: tokens of the long lines that grow the array
MaxArgs == 4         \* SpecRedir: length of the vectors drawn
MaxChildren == 1     \* child processes that may exist at once (fork fails beyond)
MaxLog == 3          \* terminal outputs remembered
MaxFile == 2         \* outputs appended to one file (a further one does not fit)

----------------------------------------------------------------------------
(* Program constants *)

INIT_CMD_CAP == 8
TRUNCATE == 0
APPEND == 1
NULL == 0

SP == " "
TAB == "\t"
NUL == "NUL"         \* the '\0' strtok writes over a delimiter

OP_IN == <<"<">>
OP_OUT == <<">">>
OP_APP == <<">", ">">>
OP_ERR == <<"2", ">">>
Operators == {OP_IN, OP_OUT, OP_APP, OP_ERR}

S_exit == <<"e", "x", "i", "t">>
S_cd == <<"c", "d">>

----------------------------------------------------------------------------
(* inputToCommand: strtok over a copy of the line *)

RECURSIVE SkipDelims(_, _)
\* strtok's strspn: the first index at or after p that holds no delimiter
SkipDelims(buf, p) ==
    IF p <= Len(buf) /\ buf[p] = SP THEN SkipDelims(buf, p + 1) ELSE p

RECURSIVE TokenEnd(_, _)
\* strtok's strpbrk: the first index at or after p that holds a delimiter (or the end)
TokenEnd(buf, p) ==
    IF p <= Len(buf) /\ buf[p] # SP THEN TokenEnd(buf, p + 1) ELSE p

\* one strtok call continuing at p: the token, the buffer with the delimiter
\* that ended it overwritten, and the saved position
StrTok(buf, p) ==
    LET s == SkipDelims(buf, p)
        e == TokenEnd(buf, s)
    IN  IF s > Len(buf)
        THEN [found |-> FALSE, token |-> <<>>, buf |-> buf, next |-> s]
        ELSE [found |-> TRUE,
              token |-> SubSeq(buf, s, e - 1),
              buf   |-> IF e <= Len(buf) THEN [buf EXCEPT ![e] = NUL] ELSE buf,
              next  |-> IF e <= Len(buf) THEN e + 1 ELSE e]

RECURSIVE TokenLoop(_, _, _, _)
\* while (token != NULL): grow the array when count >= capacity - 1, strdup the token
TokenLoop(buf, p, toks, capacity) ==
    LET t == StrTok(buf, p)
        grown == IF Len(toks) >= capacity - 1 THEN capacity * 2 ELSE capacity
    IN  IF ~t.found
        THEN [tokens |-> toks, capacity |-> capacity, copy |-> buf]
        ELSE TokenLoop(t.buf, t.next, Append(toks, t.token), grown)

\* a tokenizer that cuts at every delimiter, yielding empty tokens
RECURSIVE SplitEvery(_, _, _)
SplitEvery(line, p, cur) ==
    IF p > Len(line) THEN <<cur>>
    ELSE IF line[p] = SP THEN <<cur>> \o SplitEvery(line, p + 1, <<>>)
    ELSE SplitEvery(line, p + 1, Append(cur, line[p]))

InputToCommandEmptyTokens(line) ==
    [tokens |-> SplitEvery(line, 1, <<>>), capacity |-> INIT_CMD_CAP, input |-> line]

\* inputToCommand(input): the tokens in order, the array's capacity, and the
\* caller's line afterwards (strtok ran on input_copy, which is freed)
inputToCommand(line) ==
    LET r == TokenLoop(line, 1, <<>>, INIT_CMD_CAP)
    IN  [tokens |-> r.tokens, capacity |-> r.capacity, input |-> line]

\* the array inputToCommand returns for n tokens: pointers 1..n, then NULL
ArrayOf(n) == [i \in 1..(n + 1) |-> IF i <= n THEN i ELSE NULL]

----------------------------------------------------------------------------
(* setup_redirects: the in-place scan of the array *)

NoRedirect ==
    [input_file |-> NULL, output_file |-> NULL, error_file |-> NULL,
     output_mode |-> TRUNCATE]

RECURSIVE RedirectLoop(_, _, _, _, _)
\* for (i = 0; command[i] != NULL; i++) with write_idx; indices are 1-based here
RedirectLoop(text, cmd, i, write_idx, r) ==
    IF cmd[i] = NULL
    THEN [command |-> [cmd EXCEPT ![write_idx] = NULL], redir |-> r]
    ELSE LET s == text[cmd[i]]
             operand == cmd[i + 1]
         IN  IF s = OP_IN THEN
                 IF operand # NULL
                 THEN RedirectLoop(text, cmd, i + 2, write_idx,
                                   [r EXCEPT !.input_file = operand])
                 ELSE RedirectLoop(text, cmd, i + 1, write_idx, r)
             ELSE IF s = OP_OUT THEN
                 IF operand # NULL
                 THEN RedirectLoop(text, cmd, i + 2, write_idx,
                                   [r EXCEPT !.output_file = operand,
                                             !.output_mode = TRUNCATE])
                 ELSE RedirectLoop(text, cmd, i + 1, write_idx, r)
             ELSE IF s = OP_APP THEN
                 IF operand # NULL
                 THEN RedirectLoop(text, cmd, i + 2, write_idx,
                                   [r EXCEPT !.output_file = operand,
                                             !.output_mode = APPEND])
                 ELSE RedirectLoop(text, cmd, i + 1, write_idx, r)
             ELSE IF s = OP_ERR THEN
                 IF operand # NULL
                 THEN RedirectLoop(text, cmd, i + 2, write_idx,
                                   [r EXCEPT !.error_file = operand])
                 ELSE RedirectLoop(text, cmd, i + 1, write_idx, r)
             ELSE RedirectLoop(text, [cmd EXCEPT ![write_idx] = cmd[i]],
                               i + 1, write_idx + 1, r)

\* an extractor that records the targets and leaves the vector as it was
SetupRedirectsNoStrip(text, cmd) ==
    [command |-> cmd, redir |-> RedirectLoop(text, cmd, 1, 1, NoRedirect).redir]

\* an extractor whose > does not set the mode back: any >> with an operand appends
SetupRedirectsStickyAppend(text, cmd) ==
    LET r == RedirectLoop(text, cmd, 1, 1, NoRedirect)
    IN  IF \E k \in 1..(Len(text) - 1) : text[k] = OP_APP
        THEN [r EXCEPT !.redir.output_mode = APPEND]
        ELSE r

\* an extractor that leaves an operator without an operand in the vector
SetupRedirectsKeepsBareOperator(text, cmd) ==
    LET r == RedirectLoop(text, cmd, 1, 1, NoRedirect)
        n == Len(text)
        w == CHOOSE i \in 1..Len(r.command) :
                 r.command[i] = NULL /\ \A j \in 1..(i - 1) : r.command[j] # NULL
    IN  IF n > 0 /\ text[n] \in Operators /\ w <= n
           /\ r.redir = RedirectLoop(SubSeq(text, 1, n - 1),
                                     [i \in 1..n |-> IF i < n THEN i ELSE NULL],
                                     1, 1, NoRedirect).redir
        THEN [r EXCEPT !.command = [@ EXCEPT ![w] = n, ![w + 1] = NULL]]
        ELSE r

\* setup_redirects(command, &redir): the array after the scan, and the directive
setup_redirects(text, cmd) == RedirectLoop(text, cmd, 1, 1, NoRedirect)

\* the index of the array's first NULL
RECURSIVE FirstNull(_, _)
FirstNull(cmd, i) == IF cmd[i] = NULL THEN i ELSE FirstNull(cmd, i + 1)

\* the pointers before the first NULL: what execvp and freeCommand see
Args(cmd) == SubSeq(cmd, 1, FirstNull(cmd, 1) - 1)

\* the argument vector as text
ArgText(text, cmd) == [k \in 1..Len(Args(cmd)) |-> text[cmd[k]]]

----------------------------------------------------------------------------
(* The heap of one line, and freeCommand *)

EmptyHeap == [input |-> FALSE, array |-> FALSE, toks |-> {}]

\* no line: a sequence no line equals, a line holding no '\0'
NoLine == <<NUL>>

\* free(input)
FreeInput(h) == [h EXCEPT !.input = FALSE]

\* freeCommand(command): free every string up to the first NULL, then the array
freeCommand(cmd, h) ==
    [h EXCEPT !.array = FALSE,
              !.toks = @ \ {cmd[k] : k \in 1..(FirstNull(cmd, 1) - 1)}]

----------------------------------------------------------------------------
(* The environment: directories, the lines typed, the terminal *)

Join(words) ==
    LET RECURSIVE J(_)
        J(k) == IF k = 0 THEN <<>>
                ELSE IF k = 1 THEN words[1]
                ELSE J(k - 1) \o <<SP>> \o words[k]
    IN  J(Len(words))

D_root == <<"/">>
D_t == <<"/", "t">>
D_n == <<"/", "n">>
\* the directories chdir can enter; every other path fails
Dirs == {D_root, D_t}

W_ls == <<"l", "s">>
W_one == <<"1">>
F_f == <<"f">>
F_e == <<"e">>

W_nx == <<"n", "x">>
\* the programs execvp finds; every other name fails
Programs == {W_ls}

\* the lines readline may return in Spec: the loop, the builtins, a program
Lines ==
    { <<>>,
      <<SP>>,
      <<SP, SP>>,
      S_exit,
      Join(<<S_exit, W_one, OP_OUT, F_f>>),
      S_cd,
      Join(<<S_cd, D_t>>),
      Join(<<S_cd, D_root>>),
      Join(<<S_cd, D_n>>),
      W_ls,
      Join(<<OP_IN, F_f>>) }

\* the sessions of SpecRun, each the lines its user may type: programs and
\* builtins with redirections, targets that cannot be opened, a name that
\* cannot be run
Sessions ==
    { { Join(<<W_ls, OP_OUT, F_f>>), Join(<<W_ls, OP_APP, F_f, OP_ERR, F_e>>) },
      { Join(<<W_ls, OP_IN, F_f>>), Join(<<W_ls, OP_IN, D_t>>) },
      { Join(<<W_ls, OP_OUT, D_t>>), Join(<<W_ls, OP_ERR, D_t>>) },
      { W_nx, Join(<<W_nx, OP_ERR, F_e>>) },
      { Join(<<S_cd, D_t, OP_OUT, F_f>>), Join(<<W_ls, OP_IN, F_f>>) },
      { Join(<<OP_OUT, F_f, S_cd>>), Join(<<S_exit, OP_ERR, F_e>>),
        Join(<<OP_ERR, F_e>>), <<>> },
      { Join(<<W_nx, OP_ERR, F_e>>),
        Join(<<W_ls, OP_ERR, F_e, OP_OUT, F_f, OP_IN, D_n>>),
        Join(<<W_ls, OP_ERR, F_e, OP_OUT, D_t>>) },
      { Join(<<W_ls, OP_OUT, F_f>>), Join(<<W_ls, OP_ERR, D_t, OP_OUT, F_f>>) } }

OnlySpaces(line) == \A k \in 1..Len(line) : line[k] = SP

Emit(log, e) ==
    LET s == Append(log, e) IN IF Len(s) > MaxLog THEN Tail(s) ELSE s

Newline == <<"stdout", "newline", <<>>>>
PromptOf(dir) == <<"tty", "prompt", dir \o <<">", SP>>>>
Fallback == <<"?", "?", "?">>
CwdWarning == <<"stderr", "Warning: Unable to determine current directory", <<>>>>
CdUsage == <<"stderr", "cd: missing operand; Usage: cd <directory>", <<>>>>
CdError(path) == <<"stderr", "cd: cannot change directory to", path>>
ForkError == <<"stderr", "Error: Failed to create child process", <<>>>>
AllocError == <<"stderr", "Error: Memory allocation failed", <<>>>>

\* a cd whose failure goes unnoticed
CdAlwaysZero(path) == 0

\* cd(path): chdir's return value
cd(path) == IF path \in Dirs THEN 0 ELSE -1

----------------------------------------------------------------------------
(* The files, the descriptors, and what a process writes *)

NoName == <<>>
\* the terminal, as what a descriptor is open on
TTY == <<"tty">>
FileNames == {F_f, F_e}

\* the path a name means to a process whose working directory is dir
Path(dir, name) ==
    IF name[1] = "/" THEN name
    ELSE IF dir = D_root THEN dir \o name
    ELSE dir \o <<"/">> \o name

\* the regular files there may be: f and e in each directory
FilePaths == {Path(d, n) : d \in Dirs, n \in FileNames}
Absent == [exists |-> FALSE, data |-> <<>>]
Empty == [exists |-> TRUE, data |-> <<>>]

\* descriptors 0, 1, 2 as the shell got them; app: descriptor 1 is O_APPEND
StdFds == [in |-> TTY, out |-> TTY, err |-> TTY, app |-> FALSE]

\* open(p, O_RDONLY) succeeds: p exists
CanRead(fs, p) == p \in Dirs \/ (p \in FilePaths /\ fs[p].exists)
\* open(p, O_WRONLY | O_CREAT | ..., 0644) succeeds: p is or becomes a regular file
CanWrite(fs, p) == p \in FilePaths
\* the files after that open: O_TRUNC empties p, O_CREAT makes it when absent
Opened(fs, p, mode) ==
    [fs EXCEPT ![p] = IF mode = APPEND /\ @.exists THEN @ ELSE Empty]
\* the files after write(fd, x): at the end with O_APPEND, else at the
\* descriptor's offset, which is 0 (a process writes a descriptor once here)
Written(fs, p, app, x) ==
    [fs EXCEPT ![p].data = IF app THEN Append(@, x)
                           ELSE IF @ = <<>> THEN <<x>> ELSE <<x>> \o Tail(@)]
\* an appended output fits the file
Fits(fs, p, app) == ~app \/ Len(fs[p].data) < MaxFile

\* what a child writes
InOpenError(name) == <<"stderr", "Error: Failed to open input file", name>>
InDupError(name) == <<"stderr", "Error: Failed to redirect stdin from", name>>
OutOpenError(name) == <<"stderr", "Error: Failed to open output file", name>>
OutDupError(name) == <<"stderr", "Error: Failed to redirect stdout to", name>>
ErrOpenError(name) == <<"stderr", "Error: Failed to open error file", name>>
ErrDupError(name) == <<"stderr", "Error: Failed to redirect stderr to", name>>
ExecError(name) == <<"stderr", "Error: Command not found or failed to execute", name>>
Output(name) == <<"stdout", "output of", name>>

\* a child: st is where it is (main's child path, then the program), dir its
\* working directory, name and redir its copies of command[0] and redir (as
\* text), fd its descriptors, sigint its disposition of SIGINT, status what it
\* passed to exit (-1: none), said where it wrote an error and which,
\* jump_flag its copy of jump_flag
NoChild ==
    [st |-> "none", waited |-> FALSE, dir |-> D_root, name |-> NoName,
     jump_flag |-> 0,
     redir |-> [input_file |-> NoName, output_file |-> NoName,
                error_file |-> NoName, output_mode |-> TRUNCATE],
     fd |-> StdFds, sigint |-> "default", status |-> -1, said |-> <<>>]
Slots == 1..MaxChildren
FreeSlots == {s \in Slots : children[s].st = "none"}
Lowest(S) == CHOOSE s \in S : \A t \in S : s <= t

----------------------------------------------------------------------------
(* main *)

\* the state in which main starts, the user having the lines of L to type
Start(L) ==
    /\ pc = "start"
    /\ handler = FALSE
    /\ jump_flag = 0
    /\ env = "unset"
    /\ cwd = D_root
    /\ input = <<>>
    /\ tok = <<>>
    /\ command = <<NULL>>
    /\ redir = NoRedirect
    /\ heap = EmptyHeap
    /\ leaked = EmptyHeap
    /\ children = [s \in Slots |-> NoChild]
    /\ child_pid = 0
    /\ out = <<>>
    /\ exitStatus = -1
    /\ prev = NoLine
    /\ jumped_from = "none"
    /\ files = [p \in FilePaths |-> Absent]
    /\ fds = StdFds
    /\ script = L

Init == Start(Lines)

\* the end of an iteration (continue, break, the bottom of the loop, or a jump
\* out of it): what is still allocated is never freed, the pointers to it being
\* overwritten by the next line; input, command, redir and child_pid are dead
\* until the next iteration assigns them, and are shown as they were at Init
EndIteration(h, line) ==
    /\ leaked' = h
    /\ prev' = line
    /\ heap' = EmptyHeap
    /\ input' = <<>>
    /\ tok' = <<>>
    /\ command' = <<NULL>>
    /\ redir' = NoRedirect
    /\ child_pid' = 0

\* line 50: setup_sigaction_handler()
SetupHandler ==
    /\ pc = "start"
    /\ handler' = TRUE
    /\ pc' = "setjmp"
    /\ UNCHANGED <<jump_flag, env, cwd, input, tok, command, redir, heap, leaked,
                   children, child_pid, out, exitStatus, prev, jumped_from,
                   files, fds, script>>

\* line 54: sigsetjmp(env, 1) returns 0
SigSetJmp ==
    /\ pc = "setjmp"
    /\ env' = "set"
    /\ leaked' = EmptyHeap
    /\ pc' = "arm"
    /\ UNCHANGED <<handler, jump_flag, cwd, input, tok, command, redir, heap,
                   children, child_pid, out, exitStatus, prev, jumped_from,
                   files, fds, script>>

\* a return from the jump that prints nothing
JumpReturnSilent ==
    /\ pc = "ret42"
    /\ leaked' = EmptyHeap
    /\ pc' = "arm"
    /\ UNCHANGED <<handler, jump_flag, env, cwd, input, tok, command, redir, heap,
                   children, child_pid, out, exitStatus, prev, jumped_from,
                   files, fds, script>>

\* lines 54-56: sigsetjmp returns 42 after siglongjmp: printf("\n")
JumpReturn ==
    /\ pc = "ret42"
    /\ out' = Emit(out, Newline)
    /\ leaked' = EmptyHeap
    /\ pc' = "arm"
    /\ UNCHANGED <<handler, jump_flag, env, cwd, input, tok, command, redir, heap,
                   children, child_pid, exitStatus, prev, jumped_from,
                   files, fds, script>>

\* line 57: jump_flag = 1
Arm ==
    /\ pc = "arm"
    /\ jump_flag' = 1
    /\ pc' = "getcwd"
    /\ UNCHANGED <<handler, env, cwd, input, tok, command, redir, heap, leaked,
                   children, child_pid, out, exitStatus, prev, jumped_from,
                   files, fds, script>>

\* lines 60-66: getcwd, the "> " suffix, and readline(cwd) showing the prompt
BuildPrompt ==
    /\ pc = "getcwd"
    /\ \/ out' = Emit(out, PromptOf(cwd))
       \/ out' = Emit(Emit(out, CwdWarning), PromptOf(Fallback))
    /\ pc' = "readline"
    /\ UNCHANGED <<handler, jump_flag, env, cwd, input, tok, command, redir, heap,
                   leaked, children, child_pid, exitStatus, prev, jumped_from,
                   files, fds, script>>

\* lines 66-72: readline returns NULL: printf("\n"); break; return 0
ReadEOF ==
    /\ pc = "readline"
    /\ jumped_from' = "none"
    /\ out' = Emit(out, Newline)
    /\ pc' = "done"
    /\ exitStatus' = 0
    /\ UNCHANGED <<handler, jump_flag, env, cwd, input, tok, command, redir, heap,
                   leaked, children, child_pid, prev,
                   files, fds, script>>

\* lines 66, 75-78: readline returns "": free(input); continue
ReadEmpty ==
    /\ pc = "readline"
    /\ jumped_from' = "none"
    /\ <<>> \in script
    /\ out' = <<>>
    /\ EndIteration(FreeInput([EmptyHeap EXCEPT !.input = TRUE]), <<>>)
    /\ pc' = "setjmp"
    /\ UNCHANGED <<handler, jump_flag, env, cwd, children, exitStatus,
                   files, fds, script>>

\* lines 66, 80: readline returns a line of text; add_history(input)
ReadLine ==
    /\ pc = "readline"
    /\ jumped_from' = "none"
    /\ \E line \in script \ {<<>>} : input' = line
    /\ heap' = [EmptyHeap EXCEPT !.input = TRUE]
    /\ out' = <<>>
    /\ pc' = "tokenize"
    /\ UNCHANGED <<handler, jump_flag, env, cwd, tok, command, redir, leaked,
                   children, child_pid, exitStatus, prev,
                   files, fds, script>>

\* line 82: command = inputToCommand(input)
Tokenize ==
    /\ pc = "tokenize"
    /\ LET r == inputToCommand(input)
       IN  /\ input' = r.input
           /\ tok' = r.tokens
           /\ command' = ArrayOf(Len(r.tokens))
           /\ heap' = [heap EXCEPT !.array = TRUE, !.toks = 1..Len(r.tokens)]
    /\ pc' = "redirects"
    /\ UNCHANGED <<handler, jump_flag, env, cwd, redir, leaked, children, child_pid,
                   out, exitStatus, prev, jumped_from,
                   files, fds, script>>

\* lines 300-303, 307-311, 320-325, 331-336: an allocation fails: exit(1)
TokenizeNoMemory ==
    /\ pc = "tokenize"
    /\ out' = Emit(out, AllocError)
    /\ pc' = "done"
    /\ exitStatus' = 1
    /\ UNCHANGED <<handler, jump_flag, env, cwd, input, tok, command, redir, heap,
                   leaked, children, child_pid, prev, jumped_from,
                   files, fds, script>>

\* line 85: setup_redirects(command, &redir)
Extract ==
    /\ pc = "redirects"
    /\ LET r == setup_redirects(tok, command)
       IN  /\ command' = r.command
           /\ redir' = r.redir
    /\ pc' = "dispatch"
    /\ UNCHANGED <<handler, jump_flag, env, cwd, input, tok, heap, leaked, children,
                   child_pid, out, exitStatus, prev, jumped_from,
                   files, fds, script>>

\* lines 88-92: if (!command[0]) { free(input); freeCommand(command); continue; }
SkipBlank ==
    /\ pc = "dispatch"
    /\ command[1] = NULL
    /\ EndIteration(freeCommand(command, FreeInput(heap)), input)
    /\ pc' = "setjmp"
    /\ UNCHANGED <<handler, jump_flag, env, cwd, children, out, exitStatus, jumped_from,
                   files, fds, script>>

\* lines 95-99, 137: exit: free(input); freeCommand(command); break; return 0
BuiltinExit ==
    /\ pc = "dispatch"
    /\ command[1] # NULL
    /\ tok[command[1]] = S_exit
    /\ EndIteration(freeCommand(command, FreeInput(heap)), input)
    /\ pc' = "done"
    /\ exitStatus' = 0
    /\ UNCHANGED <<handler, jump_flag, env, cwd, children, out, jumped_from,
                   files, fds, script>>

\* a cd that applies the output redirection of its line in the shell itself
BuiltinCdRedirected ==
    /\ pc = "dispatch"
    /\ command[1] # NULL
    /\ tok[command[1]] = S_cd
    /\ IF command[2] = NULL
       THEN /\ out' = Emit(out, CdUsage)
            /\ cwd' = cwd
       ELSE IF cd(tok[command[2]]) < 0
       THEN /\ out' = Emit(out, CdError(tok[command[2]]))
            /\ cwd' = cwd
       ELSE /\ out' = out
            /\ cwd' = tok[command[2]]
    /\ IF redir.output_file # NULL /\ CanWrite(files, Path(cwd, tok[redir.output_file]))
       THEN /\ files' = Opened(files, Path(cwd, tok[redir.output_file]),
                               redir.output_mode)
            /\ fds' = [fds EXCEPT !.out = Path(cwd, tok[redir.output_file])]
       ELSE UNCHANGED <<files, fds>>
    /\ EndIteration(freeCommand(command, FreeInput(heap)), input)
    /\ pc' = "setjmp"
    /\ UNCHANGED <<handler, jump_flag, env, children, exitStatus, jumped_from, script>>

\* lines 102-112: cd
BuiltinCd ==
    /\ pc = "dispatch"
    /\ command[1] # NULL
    /\ tok[command[1]] = S_cd
    /\ IF command[2] = NULL
       THEN /\ out' = Emit(out, CdUsage)
            /\ cwd' = cwd
       ELSE IF cd(tok[command[2]]) < 0
       THEN /\ out' = Emit(out, CdError(tok[command[2]]))
            /\ cwd' = cwd
       ELSE /\ out' = out
            /\ cwd' = tok[command[2]]
    /\ EndIteration(freeCommand(command, FreeInput(heap)), input)
    /\ pc' = "setjmp"
    /\ UNCHANGED <<handler, jump_flag, env, children, exitStatus, jumped_from,
                   files, fds, script>>

External ==
    /\ pc = "dispatch"
    /\ command[1] # NULL
    /\ tok[command[1]] # S_exit
    /\ tok[command[1]] # S_cd

\* the text a pointer of this line points to, NoName for NULL
NameOf(ptr) == IF ptr = NULL THEN NoName ELSE tok[ptr]

\* the child as fork() makes it: a copy of the shell about to run line 123
Forked ==
    [st |-> "redir_in", waited |-> FALSE, dir |-> cwd,
     name |-> tok[command[1]], jump_flag |-> jump_flag,
     redir |-> [input_file |-> NameOf(redir.input_file),
                output_file |-> NameOf(redir.output_file),
                error_file |-> NameOf(redir.error_file),
                output_mode |-> redir.output_mode],
     fd |-> fds, sigint |-> IF handler THEN "handler" ELSE "default",
     status |-> -1, said |-> <<>>]

\* lines 114, 128-130: fork() returns the child's pid; the parent goes to waitpid
Fork ==
    /\ External
    /\ FreeSlots # {}
    /\ child_pid' = Lowest(FreeSlots)
    /\ children' = [children EXCEPT ![Lowest(FreeSlots)] = Forked]
    /\ pc' = "wait"
    /\ UNCHANGED <<handler, jump_flag, env, cwd, input, tok, command, redir, heap,
                   leaked, out, exitStatus, prev, jumped_from,
                   files, fds, script>>

\* lines 114-120: fork() fails: message, free(input); freeCommand(command); continue
ForkFails ==
    /\ External
    /\ out' = Emit(out, ForkError)
    /\ EndIteration(freeCommand(command, FreeInput(heap)), input)
    /\ pc' = "setjmp"
    /\ UNCHANGED <<handler, jump_flag, env, cwd, children, exitStatus, jumped_from,
                   files, fds, script>>

\* line 130: waitpid(child_pid, &status, WUNTRACED) returns: the child has
\* terminated (and is reaped) or has stopped (and stays)
WaitReturns ==
    /\ pc = "wait"
    /\ \/ /\ children[child_pid].st = "zombie"
          /\ children' = [children EXCEPT ![child_pid] = NoChild]
       \/ /\ children[child_pid].st = "stopped"
          /\ ~children[child_pid].waited
          /\ children' = [children EXCEPT ![child_pid].waited = TRUE]
    /\ pc' = "free"
    /\ UNCHANGED <<handler, jump_flag, env, cwd, input, tok, command, redir, heap,
                   leaked, child_pid, out, exitStatus, prev, jumped_from,
                   files, fds, script>>

\* lines 133-135: free(input); freeCommand(command); the loop body ends
FreeLine ==
    /\ pc = "free"
    /\ EndIteration(freeCommand(command, FreeInput(heap)), input)
    /\ pc' = "setjmp"
    /\ UNCHANGED <<handler, jump_flag, env, cwd, children, out, exitStatus, jumped_from,
                   files, fds, script>>

Running == pc \notin {"done", "killed"}

\* SIGINT before sigaction: the default disposition ends the process
SigIntDefault ==
    /\ Running
    /\ ~handler
    /\ pc' = "killed"
    /\ UNCHANGED <<handler, jump_flag, env, cwd, input, tok, command, redir, heap,
                   leaked, children, child_pid, out, exitStatus, prev, jumped_from,
                   files, fds, script>>

\* a handler that jumps without looking at jump_flag
SigintHandlerJumps == "ret42"

\* sigint_handler(): if (!jump_flag) return; siglongjmp(env, 42);
\* the place main continues at
sigint_handler ==
    IF jump_flag = 0 THEN pc ELSE "ret42"

\* SIGINT delivered to the shell while the handler is installed
SigInt ==
    /\ Running
    /\ handler
    /\ pc' = sigint_handler
    /\ IF pc' = pc
       THEN UNCHANGED <<input, tok, command, redir, heap, leaked, child_pid, prev,
                         jumped_from>>
       ELSE EndIteration(heap, NoLine) /\ jumped_from' = pc
    /\ UNCHANGED <<handler, jump_flag, env, cwd, children, out, exitStatus,
                   files, fds, script>>

----------------------------------------------------------------------------
(* The child processes *)

\* fprintf(stderr, ...); exit(1): the message goes where the child's
\* descriptor 2 is open
Exit1(c, fs, what) ==
    [child |-> [c EXCEPT !.st = "zombie", !.status = 1, !.said = <<c.fd.err, what>>],
     files |-> IF c.fd.err = TTY THEN fs ELSE Written(fs, c.fd.err, FALSE, what)]

\* an input redirection that reports a failed open and goes on to the next
\* redirection instead of ending the child
ApplyInputGoesOn(c, fs, dup_ok) ==
    LET name == c.redir.input_file
        p == Path(c.dir, name)
    IN  IF name = NoName THEN [child |-> [c EXCEPT !.st = "redir_out"], files |-> fs]
        ELSE IF ~CanRead(fs, p)
        THEN [child |-> [c EXCEPT !.st = "redir_out",
                                  !.said = <<c.fd.err, InOpenError(name)>>],
              files |-> fs]
        ELSE IF ~dup_ok THEN Exit1(c, fs, InDupError(name))
        ELSE [child |-> [c EXCEPT !.st = "redir_out", !.fd.in = p], files |-> fs]

\* apply_redirects, lines 208-222: the input redirection
apply_input(c, fs, dup_ok) ==
    LET name == c.redir.input_file
        p == Path(c.dir, name)
    IN  IF name = NoName THEN [child |-> [c EXCEPT !.st = "redir_out"], files |-> fs]
        ELSE IF ~CanRead(fs, p) THEN Exit1(c, fs, InOpenError(name))
        ELSE IF ~dup_ok THEN Exit1(c, fs, InDupError(name))
        ELSE [child |-> [c EXCEPT !.st = "redir_out", !.fd.in = p], files |-> fs]

\* an output redirection that, when the open fails, goes on with descriptor 1
\* as it was
ApplyOutputFallback(c, fs, dup_ok) ==
    LET name == c.redir.output_file
        p == Path(c.dir, name)
        mode == c.redir.output_mode
    IN  IF name = NoName \/ ~CanWrite(fs, p)
        THEN [child |-> [c EXCEPT !.st = "redir_err"], files |-> fs]
        ELSE IF ~dup_ok THEN Exit1(c, Opened(fs, p, mode), OutDupError(name))
        ELSE [child |-> [c EXCEPT !.st = "redir_err", !.fd.out = p,
                                  !.fd.app = (mode = APPEND)],
              files |-> Opened(fs, p, mode)]

\* an output redirection that opens with O_TRUNC whatever the mode
ApplyOutputAlwaysTruncates(c, fs, dup_ok) ==
    LET name == c.redir.output_file
        p == Path(c.dir, name)
    IN  IF name = NoName THEN [child |-> [c EXCEPT !.st = "redir_err"], files |-> fs]
        ELSE IF ~CanWrite(fs, p) THEN Exit1(c, fs, OutOpenError(name))
        ELSE IF ~dup_ok THEN Exit1(c, Opened(fs, p, TRUNCATE), OutDupError(name))
        ELSE [child |-> [c EXCEPT !.st = "redir_err", !.fd.out = p, !.fd.app = FALSE],
              files |-> Opened(fs, p, TRUNCATE)]

\* apply_redirects, lines 225-243: the output redirection
apply_output(c, fs, dup_ok) ==
    LET name == c.redir.output_file
        p == Path(c.dir, name)
        mode == c.redir.output_mode
    IN  IF name = NoName THEN [child |-> [c EXCEPT !.st = "redir_err"], files |-> fs]
        ELSE IF ~CanWrite(fs, p) THEN Exit1(c, fs, OutOpenError(name))
        ELSE IF ~dup_ok THEN Exit1(c, Opened(fs, p, mode), OutDupError(name))
        ELSE [child |-> [c EXCEPT !.st = "redir_err", !.fd.out = p,
                                  !.fd.app = (mode = APPEND)],
              files |-> Opened(fs, p, mode)]

\* apply_redirects, lines 246-260: the error redirection
apply_error(c, fs, dup_ok) ==
    LET name == c.redir.error_file
        p == Path(c.dir, name)
    IN  IF name = NoName THEN [child |-> [c EXCEPT !.st = "signal"], files |-> fs]
        ELSE IF ~CanWrite(fs, p) THEN Exit1(c, fs, ErrOpenError(name))
        ELSE IF ~dup_ok THEN Exit1(c, Opened(fs, p, TRUNCATE), ErrDupError(name))
        ELSE [child |-> [c EXCEPT !.st = "signal", !.fd.err = p],
              files |-> Opened(fs, p, TRUNCATE)]

\* a child that goes on to execvp without the call of signal
ResetSkipped(c) == [c EXCEPT !.st = "execvp"]

\* line 124: signal(SIGINT, SIG_DFL)
reset_sigint(c) == [c EXCEPT !.st = "execvp", !.sigint = "default"]

\* lines 125-127: execvp(command[0], command) runs the program, which starts
\* with the default disposition of every caught signal; or it returns, and the
\* child reports and exits
execvp(c, fs) ==
    IF c.name \in Programs
    THEN [child |-> [c EXCEPT !.st = "running", !.sigint = "default"], files |-> fs]
    ELSE Exit1(c, fs, ExecError(c.name))

\* the child's step through one redirection; dup2 may fail
ChildRedirect(s) ==
    /\ children[s].st \in {"redir_in", "redir_out", "redir_err"}
    /\ \E dup_ok \in BOOLEAN :
          LET c == children[s]
              r == IF c.st = "redir_in" THEN apply_input(c, files, dup_ok)
                   ELSE IF c.st = "redir_out" THEN apply_output(c, files, dup_ok)
                   ELSE apply_error(c, files, dup_ok)
          IN  /\ children' = [children EXCEPT ![s] = r.child]
              /\ files' = r.files
    /\ UNCHANGED <<pc, handler, jump_flag, env, cwd, input, tok, command, redir, heap,
                   leaked, child_pid, out, exitStatus, prev, jumped_from, fds, script>>

\* the child's line 124
ChildSignal(s) ==
    /\ children[s].st = "signal"
    /\ children' = [children EXCEPT ![s] = reset_sigint(@)]
    /\ UNCHANGED <<pc, handler, jump_flag, env, cwd, input, tok, command, redir, heap,
                   leaked, child_pid, out, exitStatus, prev, jumped_from, files, fds,
                   script>>

\* the child's lines 125-127
ChildExec(s) ==
    /\ children[s].st = "execvp"
    /\ LET r == execvp(children[s], files)
       IN  /\ children' = [children EXCEPT ![s] = r.child]
           /\ files' = r.files
    /\ UNCHANGED <<pc, handler, jump_flag, env, cwd, input, tok, command, redir, heap,
                   leaked, child_pid, out, exitStatus, prev, jumped_from, fds, script>>

\* the program writes its output to descriptor 1 and exits with 0; what it
\* writes to the terminal is not followed
ChildExit(s) ==
    /\ children[s].st = "running"
    /\ LET c == children[s]
       IN  /\ c.fd.out # TTY => Fits(files, c.fd.out, c.fd.app)
           /\ files' = IF c.fd.out = TTY THEN files
                        ELSE Written(files, c.fd.out, c.fd.app, Output(c.name))
           /\ children' = [children EXCEPT ![s].st = "zombie", ![s].status = 0]
    /\ UNCHANGED <<pc, handler, jump_flag, env, cwd, input, tok, command, redir, heap,
                   leaked, child_pid, out, exitStatus, prev, jumped_from, fds, script>>

\* SIGINT delivered to a child that still has the shell's handler: the
\* handler runs in the child, on the child's copies of jump_flag and env, and
\* with jump_flag set the child is back at line 54 of its own copy of the loop
ChildSigInt(s) ==
    /\ children[s].st \in {"redir_in", "redir_out", "redir_err", "signal"}
    /\ children[s].sigint = "handler"
    /\ children[s].jump_flag = 1
    /\ children' = [children EXCEPT ![s].st = "shell"]
    /\ UNCHANGED <<pc, handler, jump_flag, env, cwd, input, tok, command, redir, heap,
                   leaked, child_pid, out, exitStatus, prev, jumped_from, files, fds,
                   script>>

\* a signal ends the program before it has written anything, or the child
\* that is a second shell
ChildKilled(s) ==
    /\ children[s].st \in {"running", "stopped", "shell"}
    /\ children' = [children EXCEPT ![s].st = "zombie"]
    /\ UNCHANGED <<pc, handler, jump_flag, env, cwd, input, tok, command, redir, heap,
                   leaked, child_pid, out, exitStatus, prev, jumped_from, files, fds,
                   script>>

\* the program is stopped (SIGTSTP, SIGSTOP)
ChildStop(s) ==
    /\ children[s].st = "running"
    /\ children' = [children EXCEPT ![s].st = "stopped"]
    /\ UNCHANGED <<pc, handler, jump_flag, env, cwd, input, tok, command, redir, heap,
                   leaked, child_pid, out, exitStatus, prev, jumped_from, files, fds,
                   script>>

\* a stopped program is continued (SIGCONT)
ChildCont(s) ==
    /\ children[s].st = "stopped"
    /\ children' = [children EXCEPT ![s].st = "running"]
    /\ UNCHANGED <<pc, handler, jump_flag, env, cwd, input, tok, command, redir, heap,
                   leaked, child_pid, out, exitStatus, prev, jumped_from, files, fds,
                   script>>

ChildStep ==
    \E s \in Slots :
        \/ ChildRedirect(s)
        \/ ChildSignal(s)
        \/ ChildExec(s)
        \/ ChildExit(s)
        \/ ChildSigInt(s)
        \/ ChildKilled(s)
        \/ ChildStop(s)
        \/ ChildCont(s)

Next ==
    \/ SetupHandler
    \/ SigSetJmp
    \/ JumpReturn
    \/ Arm
    \/ BuildPrompt
    \/ ReadEOF
    \/ ReadEmpty
    \/ ReadLine
    \/ Tokenize
    \/ TokenizeNoMemory
    \/ Extract
    \/ SkipBlank
    \/ BuiltinExit
    \/ BuiltinCd
    \/ Fork
    \/ ForkFails
    \/ WaitReturns
    \/ FreeLine
    \/ SigIntDefault
    \/ SigInt
    \/ ChildStep

Spec == Init /\ [][Next]_vars

\* the same shell, the user typing lines with redirections
InitRun == \E L \in Sessions : Start(L)
SpecRun == InitRun /\ [][Next]_vars

----------------------------------------------------------------------------
(* The tokenizer and the extractor on every short input *)

\* the state in which readline has just returned a line of text
AfterRead(line) ==
    /\ pc = "tokenize"
    /\ handler = TRUE
    /\ jump_flag = 1
    /\ env = "set"
    /\ cwd = D_root
    /\ input = line
    /\ tok = <<>>
    /\ command = <<NULL>>
    /\ redir = NoRedirect
    /\ heap = [EmptyHeap EXCEPT !.input = TRUE]
    /\ leaked = EmptyHeap
    /\ children = [s \in Slots |-> NoChild]
    /\ child_pid = 0
    /\ out = <<>>
    /\ exitStatus = -1
    /\ prev = NoLine
    /\ jumped_from = "none"
    /\ files = [p \in FilePaths |-> Absent]
    /\ fds = StdFds
    /\ script = {line}

TokChars == {SP, TAB, "a", "b"}
W_a == <<"a">>
\* "a a ... a" of n tokens: long enough to make the array grow
LongLine(n) == Join([k \in 1..n |-> W_a])
TokLines ==
    UNION {[1..n -> TokChars] : n \in 1..MaxLineLen}
        \cup {LongLine(n) : n \in 1..MaxLongTokens}

InitTok == \E line \in TokLines : AfterRead(line)
NextTok == Tokenize \/ TokenizeNoMemory
SpecTok == InitTok /\ [][NextTok]_vars

\* the state in which inputToCommand has just returned the tokens words
AfterTokenize(words) ==
    /\ pc = "redirects"
    /\ handler = TRUE
    /\ jump_flag = 1
    /\ env = "set"
    /\ cwd = D_root
    /\ input = (IF Len(words) = 0 THEN <<SP>> ELSE Join(words))
    /\ tok = words
    /\ command = ArrayOf(Len(words))
    /\ redir = NoRedirect
    /\ heap = [input |-> TRUE, array |-> TRUE, toks |-> 1..Len(words)]
    /\ leaked = EmptyHeap
    /\ children = [s \in Slots |-> NoChild]
    /\ child_pid = 0
    /\ out = <<>>
    /\ exitStatus = -1
    /\ prev = NoLine
    /\ jumped_from = "none"
    /\ files = [p \in FilePaths |-> Absent]
    /\ fds = StdFds
    /\ script = {input}

N_lf == <<"<", "f">>
RedirTokens == Operators \cup {W_ls, F_f, F_e, N_lf}
RedirVectors == UNION {[1..n -> RedirTokens] : n \in 0..MaxArgs}

InitRedir == \E words \in RedirVectors : AfterTokenize(words)
NextRedir == Extract
SpecRedir == InitRedir /\ [][NextRedir]_vars

----------------------------------------------------------------------------
(* What the claims speak of *)

Last(q) == q[Len(q)]

\* the maximal space-free substrings of a line, in order of appearance
RunStarts(line) ==
    {s \in 1..Len(line) : line[s] # SP /\ (s = 1 \/ line[s - 1] = SP)}
RunEnd(line, s) ==
    CHOOSE e \in s..Len(line) :
        /\ \A j \in s..e : line[j] # SP
        /\ e = Len(line) \/ line[e + 1] = SP
NthStart(line, n) ==
    CHOOSE s \in RunStarts(line) :
        Cardinality({t \in RunStarts(line) : t < s}) = n - 1
MaximalRuns(line) ==
    [n \in 1..Cardinality(RunStarts(line)) |->
        SubSeq(line, NthStart(line, n), RunEnd(line, NthStart(line, n)))]

\* the part a token plays in a vector: the operand of the operator before it,
\* an operator, or an argument
RECURSIVE IsOperand(_, _)
IsOperand(words, k) ==
    k > 1 /\ words[k - 1] \in Operators /\ ~IsOperand(words, k - 1)
IsOperator(words, k) == words[k] \in Operators /\ ~IsOperand(words, k)
IsArgument(words, k) == words[k] \notin Operators /\ ~IsOperand(words, k)

\* the arguments of a vector, in their order
Arguments(words) ==
    LET idx == {k \in 1..Len(words) : IsArgument(words, k)}
        nth(n) == CHOOSE k \in idx : Cardinality({j \in idx : j < k}) = n - 1
    IN  [n \in 1..Cardinality(idx) |-> words[nth(n)]]

\* the pointer to the operand of the last operator of ops that has one, or NULL
LastOperand(words, ops) ==
    LET occ == {k \in 1..(Len(words) - 1) : IsOperator(words, k) /\ words[k] \in ops}
    IN  IF occ = {} THEN NULL
        ELSE (CHOOSE k \in occ : \A j \in occ : j <= k) + 1

W_cat == <<"c", "a", "t">>
W_in == <<"i", "n", ".", "t", "x", "t">>
W_out == <<"o", "u", "t", ".", "t", "x", "t">>
W_extra == <<"e", "x", "t", "r", "a">>
Example == <<W_cat, OP_IN, W_in, OP_OUT, W_out, W_extra>>

----------------------------------------------------------------------------
(* C5: after extraction the vector holds exactly the tokens that are neither an
   operator nor the operand an operator consumed, in their order, and none of
   the four operators; [cat, <, in.txt, >, out.txt, extra] gives [cat, extra] *)
C5_CleanedVector ==
    /\ pc = "dispatch" =>
          /\ ArgText(tok, command) = Arguments(tok)
          /\ \A k \in 1..Len(Args(command)) : tok[command[k]] \notin Operators
    /\ ArgText(Example, setup_redirects(Example, ArrayOf(6)).command)
          = <<W_cat, W_extra>>

\* an operator that takes another operator as its operand, a bare trailing
\* operator, and an argument kept after them
C5_Witness ==
    /\ pc = "dispatch"
    /\ tok = <<W_ls, OP_IN, OP_OUT, F_f>>
    /\ ArgText(tok, command) = <<W_ls, F_f>>

(* C6: the directive starts as (NULL, NULL, NULL, TRUNCATE); each field ends as
   the operand of the last operator with an operand that maps to it; the mode
   is APPEND exactly when the last such output operator is >>; nothing is
   reported and the shell goes on *)
C6_Directive ==
    pc = "dispatch" =>
        /\ redir.input_file = LastOperand(tok, {OP_IN})
        /\ redir.output_file = LastOperand(tok, {OP_OUT, OP_APP})
        /\ redir.error_file = LastOperand(tok, {OP_ERR})
        /\ redir.output_mode \in {TRUNCATE, APPEND}
        /\ redir.output_mode = APPEND <=>
              /\ redir.output_file # NULL
              /\ tok[redir.output_file - 1] = OP_APP
        /\ out = <<>> /\ exitStatus = -1

\* >> f followed by > e: the later operator wins and the mode is back to TRUNCATE
C6_Witness ==
    /\ pc = "dispatch"
    /\ tok = <<OP_APP, F_f, OP_OUT, F_e>>
    /\ redir.output_file = 4
    /\ redir.output_mode = TRUNCATE

(* C7: the tokenizer returns the maximal space-free substrings of the line in
   order of appearance: no empty token, a tab separates nothing, a line of
   spaces gives the empty vector, and the line itself is left as it was *)
C7_Tokenizer ==
    [][(pc = "tokenize" /\ pc' = "redirects") =>
          /\ input' = input
          /\ tok' = MaximalRuns(input)
          /\ \A k \in 1..Len(tok') : tok'[k] # <<>>
          /\ command' = ArrayOf(Len(tok'))
          /\ OnlySpaces(input) => tok' = <<>>]_vars

\* leading and repeated spaces and a tab that stays inside its token
C7_Witness ==
    /\ pc = "redirects"
    /\ input = <<SP, TAB, SP, SP, "b">>
    /\ tok = << <<TAB>>, <<"b">> >>

----------------------------------------------------------------------------
(* The loop *)

Unwaited == {s \in Slots : children[s].st # "none" /\ ~children[s].waited}

\* the terminal ends with the prompt: the directory, or ??? after the warning
EndsWithPrompt(q, before) ==
    \/ q = before \o <<PromptOf(cwd)>>
    \/ q = before \o <<CwdWarning, PromptOf(Fallback)>>

\* the argument vector the loop dispatches for a line
Dispatched(line) ==
    LET words == inputToCommand(line).tokens
    IN  ArgText(words, setup_redirects(words, ArrayOf(Len(words))).command)

(* C1 as claimed: at most one forked child has not been waited on, and while
   there is one the shell is in waitpid for it *)
C1_OneOutstandingChild ==
    /\ Cardinality(Unwaited) <= 1
    /\ \A s \in Unwaited : pc = "wait" /\ child_pid = s

(* C2 as claimed: SIGINT makes main jump only out of readline; while it
   tokenizes, extracts, runs a builtin, forks, waits or frees, it jumps nowhere *)
C2_JumpOnlyFromReadline ==
    jumped_from \notin {"tokenize", "redirects", "dispatch", "wait", "free"}

(* C3: SIGINT while readline blocks: a newline is printed, jump_flag and env are
   set again, a fresh prompt is shown; the shell has not ended and no command
   of the interrupted line is in progress *)
C3_InterruptedRead ==
    jumped_from = "readline" =>
        /\ pc \in {"ret42", "arm", "getcwd", "readline"}
        /\ exitStatus = -1
        /\ heap = EmptyHeap /\ command = <<NULL>> /\ child_pid = 0
        /\ pc \in {"arm", "getcwd"} => Len(out) > 0 /\ Last(out) = Newline
        /\ pc \in {"getcwd", "readline"} => jump_flag = 1 /\ env = "set"
        /\ pc = "readline" =>
              \E before \in {SubSeq(out, 1, k) : k \in 1..Len(out)} :
                  /\ Last(before) = Newline
                  /\ EndsWithPrompt(out, before)

\* the prompt is back after an interrupted read
C3_Witness ==
    /\ jumped_from = "readline"
    /\ pc = "readline"
    /\ out = <<PromptOf(D_root), Newline, PromptOf(D_root)>>

(* C4 as claimed: when an iteration ends by continue, by break or at the bottom
   of the loop, nothing it allocated is still allocated *)
C4_NoLeak ==
    pc \in {"setjmp", "done"} => leaked = EmptyHeap

(* C8: a line of spaces only (none included) gives the empty vector, and the
   loop only discards it: no child, no builtin, the same directory, no output,
   nothing left allocated, and on to the next prompt *)
C8_BlankLine ==
    [][/\ (pc = "readline" /\ pc' = "setjmp") =>
              /\ prev' = <<>>
              /\ inputToCommand(prev').tokens = <<>>
              /\ leaked' = EmptyHeap
              /\ cwd' = cwd /\ children' = children /\ exitStatus' = -1
       /\ (/\ pc \in {"tokenize", "redirects", "dispatch"}
           /\ OnlySpaces(input)
           /\ pc' \notin {pc, "ret42"}
           /\ exitStatus' # 1) =>
              /\ cwd' = cwd /\ children' = children /\ out' = out
              /\ exitStatus' = -1
              /\ pc = "tokenize" => pc' = "redirects" /\ tok' = <<>>
              /\ pc = "redirects" => pc' = "dispatch" /\ command'[1] = NULL
              /\ pc = "dispatch" => pc' = "setjmp" /\ leaked' = EmptyHeap]_vars

\* two spaces were read and tokenized to nothing
C8_Witness ==
    /\ pc = "dispatch"
    /\ input = <<SP, SP>>
    /\ command = <<NULL>>

(* C9 as claimed: the shell ends with status 0 (1 only when an allocation
   failed), and with the resources of its last line freed *)
C9_ExitStatus ==
    pc = "done" =>
        /\ \/ exitStatus = 0
           \/ exitStatus = 1 /\ Len(out) > 0 /\ Last(out) = AllocError
        /\ leaked = EmptyHeap

\* what one cd does to the directory, the terminal and the children
C10_CdStep ==
    (/\ pc = "dispatch"
     /\ command[1] # NULL
     /\ tok[command[1]] = S_cd
     /\ pc' \notin {pc, "ret42"}) =>
        /\ children' = children
        /\ pc' = "setjmp"
        /\ exitStatus' = -1
        /\ IF command[2] = NULL
           THEN cwd' = cwd /\ out' = Emit(out, CdUsage)
           ELSE IF tok[command[2]] \in Dirs
           THEN cwd' = tok[command[2]] /\ out' = out
           ELSE cwd' = cwd /\ out' = Emit(out, CdError(tok[command[2]]))

\* what the terminal shows when readline is entered after a cd line
C10_NextPrompt ==
    (/\ pc = "readline"
     /\ prev # NoLine
     /\ Len(Dispatched(prev)) > 0
     /\ Dispatched(prev)[1] = S_cd) =>
        LET args == Dispatched(prev)
        IN  IF Len(args) = 1 THEN EndsWithPrompt(out, <<CdUsage>>)
            ELSE IF args[2] \in Dirs
            THEN cwd = args[2] /\ EndsWithPrompt(out, <<>>)
            ELSE EndsWithPrompt(out, <<CdError(args[2])>>)

(* C10: cd never forks and the loop goes on; with a directory that can be
   entered it changes the directory, prints nothing, and the next prompt shows
   the new directory (??? when getcwd fails); with another path the directory
   stays and the error names the path; with no operand the usage error is
   printed and the directory stays *)
C10_Cd == []C10_NextPrompt /\ [][C10_CdStep]_vars

\* after cd /t the prompt shows /t and nothing else was printed
C10_Witness ==
    /\ pc = "readline"
    /\ prev = Join(<<S_cd, D_t>>)
    /\ cwd = D_t
    /\ out = <<PromptOf(D_t)>>

----------------------------------------------------------------------------
(* The redirections and the children *)

NoFiles == [p \in FilePaths |-> Absent]

\* every line of the session runs cd or exit, or nothing
BuiltinOnly(L) ==
    \A line \in L :
        \/ Dispatched(line) = <<>>
        \/ Dispatched(line)[1] \in {S_cd, S_exit}

\* what the shell's step on a cd or exit line does to the files and descriptors
C11_BuiltinStep ==
    (/\ pc = "dispatch"
     /\ command[1] # NULL
     /\ tok[command[1]] \in {S_cd, S_exit}
     /\ pc' # pc) =>
        /\ files' = files
        /\ fds' = fds
        /\ children' = children

(* C11: cd and exit ignore the redirections of their line: the step that runs
   them opens, creates and truncates no file, forks no child that would, and
   leaves the shell's descriptors as they were, wherever the operators stand
   on the line; a session of such lines only never has a file *)
C11_BuiltinsIgnoreRedirections ==
    /\ [](BuiltinOnly(script) => files = NoFiles /\ fds = StdFds)
    /\ [][C11_BuiltinStep]_vars

\* cd /t > f has changed the directory, > f cd has printed the usage error, and
\* there is no f in either directory
C11_Witness ==
    /\ pc = "setjmp"
    /\ \/ prev = Join(<<S_cd, D_t, OP_OUT, F_f>>) /\ cwd = D_t
       \/ prev = Join(<<OP_OUT, F_f, S_cd>>) /\ Last(out) = CdUsage
    /\ files = NoFiles
    /\ fds = StdFds

\* the redirection a child's step is about: its target as the child has it,
\* whether the open can succeed, the two messages, and the step after it
StepOf(c) ==
    IF c.st = "redir_in"
    THEN [name |-> c.redir.input_file,
          opens |-> c.redir.input_file # NoName
                      /\ CanRead(files, Path(c.dir, c.redir.input_file)),
          errors |-> {InOpenError(c.redir.input_file), InDupError(c.redir.input_file)},
          next |-> "redir_out"]
    ELSE IF c.st = "redir_out"
    THEN [name |-> c.redir.output_file,
          opens |-> c.redir.output_file # NoName
                      /\ CanWrite(files, Path(c.dir, c.redir.output_file)),
          errors |-> {OutOpenError(c.redir.output_file),
                      OutDupError(c.redir.output_file)},
          next |-> "redir_err"]
    ELSE [name |-> c.redir.error_file,
          opens |-> c.redir.error_file # NoName
                      /\ CanWrite(files, Path(c.dir, c.redir.error_file)),
          errors |-> {ErrOpenError(c.redir.error_file),
                      ErrDupError(c.redir.error_file)},
          next |-> "signal"]

\* the descriptor a set target must be bound to, the terminal for an unset one
Bound(c, name) == IF name = NoName THEN TTY ELSE Path(c.dir, name)

\* one step of a child through a redirection: it ends the child with status 1
\* and the step's message on the shell's error stream, or it binds the target
C12_RedirectStep ==
    \A s \in Slots :
        LET c == children[s]
            d == children'[s]
            r == StepOf(c)
        IN  /\ (c.st \in {"redir_in", "redir_out", "redir_err"} /\ d # c
                   /\ d.st # "shell") =>
                  /\ d.st \in {"zombie", r.next}
                  /\ (r.name # NoName /\ ~r.opens) => d.st = "zombie"
                  /\ d.st = "zombie" =>
                        /\ r.name # NoName
                        /\ d.status = 1
                        /\ Len(d.said) = 2
                        /\ d.said[1] = fds.err
                        /\ d.said[2] \in r.errors
                        /\ d.fd = c.fd
                  /\ d.st = r.next =>
                        /\ d.status = -1
                        /\ d.said = <<>>
                        /\ r.name # NoName => r.opens
            /\ c.st = "zombie" => d.st \in {"zombie", "none"}

\* a child past apply_redirects has every set target bound: none was skipped
C12_NoFallback ==
    \A s \in Slots :
        LET c == children[s]
        IN  c.st \in {"signal", "execvp", "running", "stopped"} =>
                /\ c.fd.in = Bound(c, c.redir.input_file)
                /\ c.fd.out = Bound(c, c.redir.output_file)
                /\ c.fd.err = Bound(c, c.redir.error_file)

\* the shell waiting for a child that has ended can go on, and between the wait
\* and the prompt it neither blocks nor ends
C12_ShellGoesOn ==
    /\ (pc = "wait" /\ children[child_pid].st = "zombie") => ENABLED WaitReturns
    /\ pc = "free" => ENABLED FreeLine /\ exitStatus = -1
    /\ (pc = "setjmp" /\ prev # NoLine /\ Len(Dispatched(prev)) > 0
          /\ Dispatched(prev)[1] \notin {S_cd, S_exit}) =>
            ENABLED SigSetJmp /\ exitStatus = -1

(* C12: a child whose open or dup2 of a set redirection target fails writes
   that step's message to the error stream and ends with status 1; it never
   goes on to execvp, does not try again and does not run with the stream
   unredirected; the shell's wait returns and the loop goes on *)
C12_RedirectionFailure ==
    /\ []C12_NoFallback
    /\ []C12_ShellGoesOn
    /\ [][C12_RedirectStep]_vars

\* ls > /t: the open has failed, the child has said so and ended with 1, and
\* the shell is about to collect it
C12_Witness ==
    /\ pc = "wait"
    /\ children[child_pid].st = "zombie"
    /\ children[child_pid].status = 1
    /\ children[child_pid].said = <<TTY, OutOpenError(D_t)>>
    /\ children[child_pid].fd = StdFds

\* every set target of the child is bound: apply_redirects has returned
AllBound(c) ==
    /\ c.fd.in = Bound(c, c.redir.input_file)
    /\ c.fd.out = Bound(c, c.redir.output_file)
    /\ c.fd.err = Bound(c, c.redir.error_file)

(* C13 as claimed: a child whose command name cannot be executed never runs a
   program; past its redirections it ends, unless a signal ends it first, with
   status 1 and the not-found message on its error stream; for as long as it
   exists the shell is in waitpid for it, so the next prompt comes after it;
   and the shell still ends with 0 (1 only when an allocation failed) *)
C13_UnknownCommand ==
    /\ \A s \in Slots :
          LET c == children[s]
          IN  (c.st # "none" /\ c.name \notin Programs) =>
                  /\ c.st \notin {"running", "stopped"}
                  /\ (c.st = "zombie" /\ AllBound(c) /\ c.status # -1) =>
                        /\ c.status = 1
                        /\ c.said = <<c.fd.err, ExecError(c.name)>>
                  /\ pc = "wait" /\ child_pid = s
    /\ pc = "done" =>
          \/ exitStatus = 0
          \/ exitStatus = 1 /\ Len(out) > 0 /\ Last(out) = AllocError

(* C14 as claimed: every error message goes to the error stream the shell
   itself uses: no child has written its error anywhere else, no file holds
   an error message, and what the shell reports (cd, fork, allocation, getcwd)
   is on its stderr *)
C14_ErrorsOnShellStream ==
    /\ \A s \in Slots :
          children[s].said # <<>> => children[s].said[1] = fds.err
    /\ \A p \in FilePaths :
          \A k \in 1..Len(files[p].data) : files[p].data[k][1] # "stderr"
    /\ \A k \in 1..Len(out) :
          out[k] \in {CdUsage, ForkError, AllocError, CwdWarning}
                        \cup {CdError(tok[j]) : j \in 1..Len(tok)}
              => out[k][1] = "stderr" /\ fds.err = TTY

(* C15 as claimed: when fork fails the shell prints the error, has freed what
   the line allocated, has made no child and has nothing to wait for, and is
   on its way to the next prompt *)
C15_ForkFailure ==
    [][(External /\ pc' = "setjmp") =>
          /\ out' = Emit(out, ForkError)
          /\ leaked' = EmptyHeap
          /\ children' = children
          /\ child_pid' = 0
          /\ exitStatus' = -1
          /\ prev' = input]_vars

(* C16 as claimed: a child that has terminated is collected by the shell's
   wait: a terminated child exists only while the shell is in waitpid for it
   (line 130 is the only wait there is), whether it exited, was stopped first,
   or an interrupt arrived while it ran *)
C16_EveryChildReaped ==
    \A s \in Slots :
        children[s].st = "zombie" => pc = "wait" /\ child_pid = s

\* the shell is in waitpid for s and there is no other child: the commands have
\* run one after the other, and no other process has had the files open since
\* s was forked
Alone(s) ==
    /\ pc = "wait"
    /\ child_pid = s
    /\ \A t \in Slots \ {s} : children[t].st = "none"

\* what the steps of a child do to the target of > and >> and to that of 2>
C17_FileStep ==
    \A s \in Slots :
        LET c == children[s]
            d == children'[s]
            o == Path(c.dir, c.redir.output_file)
            e == Path(c.dir, c.redir.error_file)
        IN  /\ (c.st = "redir_out" /\ d.st = "redir_err"
                   /\ c.redir.output_file # NoName) =>
                  /\ files'[o].exists
                  /\ files'[o].data =
                        IF c.redir.output_mode = APPEND /\ files[o].exists
                        THEN files[o].data ELSE <<>>
                  /\ \A q \in FilePaths \ {o} : files'[q] = files[q]
            /\ (c.st = "redir_err" /\ d.st = "signal"
                   /\ c.redir.error_file # NoName) =>
                  /\ files'[e] = Empty
                  /\ \A q \in FilePaths \ {e} : files'[q] = files[q]
            /\ (c.st = "running" /\ d.st = "zombie" /\ d.status = 0
                   /\ c.fd.out # TTY /\ c.fd.app) =>
                  /\ c.fd.out = o
                  /\ files'[o].data = files[o].data \o <<Output(c.name)>>

\* the target of > while the only child runs with it, and when it has exited
C17_Truncated ==
    \A s \in Slots :
        LET c == children[s]
        IN  (/\ Alone(s)
             /\ c.st \notin {"none", "redir_in", "redir_out"}
             /\ c.fd.out # TTY
             /\ ~c.fd.app) =>
                /\ files[c.fd.out].exists
                /\ files[c.fd.out].data =
                      IF c.st = "zombie" /\ c.status = 0
                      THEN <<Output(c.name)>> ELSE <<>>

(* C17: >> opens its target keeping what it holds and the program's output
   goes after that, so two runs leave the first output followed by the second;
   > empties its target at the open, so after any run the file holds that
   run's output only; both create the target when it is absent; 2> always
   leaves its target existing and empty at the open *)
C17_AppendAndTruncate ==
    /\ []C17_Truncated
    /\ [][C17_FileStep]_vars

\* ls >> f 2> e has run twice: f holds both outputs, e is empty
C17_Witness ==
    /\ pc = "wait"
    /\ prev = Join(<<W_ls, OP_APP, F_f, OP_ERR, F_e>>)
    /\ input = prev
    /\ children[child_pid].st = "zombie"
    /\ children[child_pid].status = 0
    /\ files[Path(D_root, F_f)] = [exists |-> TRUE, data |-> <<Output(W_ls), Output(W_ls)>>]
    /\ files[Path(D_root, F_e)] = Empty

----------------------------------------------------------------------------
(* The extractor again *)

\* a vector without its last token
Front(words) == SubSeq(words, 1, Len(words) - 1)

(* C18: an operator that is the last token and is no operand itself is
   dropped: nothing is printed and the shell does not end, the directive is
   the one the line gives without it (what an earlier operator recorded
   stays), it is not in the cleaned vector, and a command that remains goes
   on to fork *)
C18_BareOperator ==
    (/\ pc = "dispatch"
     /\ Len(tok) > 0
     /\ IsOperator(tok, Len(tok))) =>
        LET n == Len(tok)
            without == setup_redirects(Front(tok), ArrayOf(n - 1))
        IN  /\ out = <<>>
            /\ exitStatus = -1
            /\ redir = without.redir
            /\ \A k \in 1..Len(Args(command)) : command[k] # n
            /\ ArgText(tok, command) = ArgText(Front(tok), without.command)
            /\ ArgText(tok, command) = Arguments(Front(tok))
            /\ Len(Args(command)) > 0 => ENABLED Fork

\* ls > f >>: the path and the mode of > f are kept, ls is what is dispatched
C18_Witness ==
    /\ pc = "dispatch"
    /\ tok = <<W_ls, OP_OUT, F_f, OP_APP>>
    /\ redir.output_file = 3
    /\ redir.output_mode = TRUNCATE
    /\ ArgText(tok, command) = <<W_ls>>
    /\ ENABLED Fork

----------------------------------------------------------------------------
(* The handler and the jump target *)

\* a step arms the flag only after sigsetjmp has filled env, and main arrives
\* at the return of sigsetjmp by a jump only when the flag is set and env filled
C19_ArmStep ==
    /\ jump_flag' # jump_flag => jump_flag' = 1 /\ env = "set"
    /\ (pc' = "ret42" /\ pc # "ret42") => handler /\ jump_flag = 1 /\ env = "set"
    /\ env = "unset" => pc' # "ret42" /\ jumped_from' = "none"

(* C19: jump_flag is 1 only when sigsetjmp has saved the target in env; a
   SIGINT delivered once the handler is installed and before the first
   sigsetjmp finds jump_flag 0 and the handler returns: main stays where it is
   and nothing changes *)
C19_ArmedAfterCapture ==
    /\ [](jump_flag = 1 => env = "set")
    /\ []((handler /\ env = "unset") =>
              /\ jump_flag = 0
              /\ ENABLED SigInt
              /\ sigint_handler = pc)
    /\ [][C19_ArmStep]_vars

\* the handler is installed, nothing is captured yet, and SIGINT can arrive
C19_Witness ==
    /\ pc = "setjmp"
    /\ handler
    /\ env = "unset"
    /\ jump_flag = 0
    /\ ENABLED SigInt

----------------------------------------------------------------------------
(* The order of the child's steps *)

\* the places a child goes to from each place (shell: an interrupted child that
\* is back in its copy of the loop and execs nothing itself)
After(st) ==
    CASE st = "none" -> {"redir_in"}
      [] st = "redir_in" -> {"redir_out", "zombie", "shell"}
      [] st = "redir_out" -> {"redir_err", "zombie", "shell"}
      [] st = "redir_err" -> {"signal", "zombie", "shell"}
      [] st = "signal" -> {"execvp", "shell"}
      [] st = "shell" -> {"zombie"}
      [] st = "execvp" -> {"running", "zombie"}
      [] st = "running" -> {"stopped", "zombie"}
      [] st = "stopped" -> {"running", "zombie"}
      [] st = "zombie" -> {"none"}

\* a child moves in that order only, and the image is replaced only by a child
\* that has applied its redirections and then reset SIGINT
C20_ChildStep ==
    \A s \in Slots :
        LET c == children[s]
            d == children'[s]
        IN  /\ d.st # c.st => d.st \in After(c.st)
            /\ (c.st = "execvp" /\ d.st = "running") =>
                  /\ c.sigint = "default"
                  /\ AllBound(c)
                  /\ d.fd = c.fd

\* where a child is tells what it has done: the handler is its disposition
\* until line 124, the default from then on, and past line 123 its targets
\* are bound
C20_ChildState ==
    \A s \in Slots :
        LET c == children[s]
        IN  /\ c.st \in {"redir_in", "redir_out", "redir_err", "signal", "shell"} =>
                  c.sigint = "handler"
            /\ c.st \in {"execvp", "running", "stopped"} => c.sigint = "default"
            /\ c.st \in {"signal", "execvp", "running", "stopped"} => AllBound(c)

(* C20: the child applies all its redirections, then resets SIGINT to the
   default, then calls execvp; no program starts in a child whose disposition
   is still the shell's handler, and every child that reaches execvp has made
   the reset *)
C20_ChildOrder ==
    /\ []C20_ChildState
    /\ [][C20_ChildStep]_vars

\* ls > f: the child is at execvp, its output bound to f and SIGINT reset
C20_Witness ==
    /\ pc = "wait"
    /\ children[child_pid].st = "execvp"
    /\ children[child_pid].sigint = "default"
    /\ children[child_pid].fd.out = Path(D_root, F_f)
    /\ children[child_pid].redir.output_file = F_f

----------------------------------------------------------------------------
(* The child and the loop *)

(* C21 as claimed: a forked child is never in the shell's loop: it is on its
   way through the redirections, the reset and execvp, or is the program, or
   has ended, and one that could run no program has ended by exit(1); a SIGINT
   delivered to it before its reset changes none of that *)
C21_ChildNeverInLoop ==
    \A s \in Slots :
        LET c == children[s]
        IN  /\ c.st \in {"none", "redir_in", "redir_out", "redir_err", "signal",
                        "execvp", "running", "stopped", "zombie"}
            /\ (c.st = "zombie" /\ c.name \notin Programs) => c.status = 1

----------------------------------------------------------------------------
(* The order of the redirections in the child *)

\* the messages of the three steps of apply_redirects
InputErrors(c) == {InOpenError(c.redir.input_file), InDupError(c.redir.input_file)}
OutputErrors(c) == {OutOpenError(c.redir.output_file), OutDupError(c.redir.output_file)}
ErrorErrors(c) == {ErrOpenError(c.redir.error_file), ErrDupError(c.redir.error_file)}

\* the child has ended in apply_redirects with one of these messages
FailedWith(c, errors) ==
    c.st = "zombie" /\ c.status = 1 /\ c.said # <<>> /\ c.said[2] \in errors

\* one step of a child through a redirection: the input step changes no file;
\* a step changes no file but its own target; a step whose target cannot be
\* opened ends the child and changes nothing; a step that opened its output or
\* error target leaves it created, and empty unless it is appended to, also
\* when the step then fails
C22_RedirectStep ==
    \A s \in Slots :
        LET c == children[s]
            d == children'[s]
            r == StepOf(c)
        IN  (c.st \in {"redir_in", "redir_out", "redir_err"} /\ d # c /\ d.st # "shell") =>
                /\ c.st = "redir_in" => files' = files
                /\ r.name = NoName => files' = files /\ d.st = r.next
                /\ d.st \in {r.next, "zombie"}
                /\ d.st = "zombie" => d.status = 1 /\ d.fd = c.fd /\ d.said[2] \in r.errors
                /\ r.name # NoName =>
                      /\ ~r.opens => d.st = "zombie" /\ files' = files
                      /\ \A q \in FilePaths \ {Path(c.dir, r.name)} : files'[q] = files[q]
                      /\ (c.st # "redir_in" /\ r.opens) =>
                            LET p == Path(c.dir, r.name)
                            IN  /\ files'[p].exists
                                /\ (c.st = "redir_out" /\ c.redir.output_mode = APPEND
                                       /\ files[p].exists)
                                     => files'[p] = files[p]
                                /\ ~(c.st = "redir_out" /\ c.redir.output_mode = APPEND)
                                     => files'[p] = Empty

\* a child that has ended does nothing more, and no step removes a file
C22_NothingAfterFailure ==
    /\ \A s \in Slots :
          (children[s].st = "zombie" /\ children'[s] # children[s]) =>
              children'[s] = NoChild /\ files' = files
    /\ \A p \in FilePaths : files[p].exists => files'[p].exists

\* where the child is says which targets it has bound: none at the input
\* step, the input alone at the output step, input and output at the error
\* step, whatever the order of the operators on the line; a child that failed
\* at a step has what the steps before it bound and nothing of the later ones;
\* the output target of a child that failed at the error step exists, and is
\* empty when it was opened to truncate and no other process was there
C22_Place ==
    \A s \in Slots :
        LET c == children[s]
            in == Bound(c, c.redir.input_file)
            o == Bound(c, c.redir.output_file)
        IN  /\ c.st = "redir_in" => c.fd = StdFds
            /\ (c.st = "redir_out" \/ FailedWith(c, OutputErrors(c))) =>
                  c.fd.in = in /\ c.fd.out = TTY /\ c.fd.err = TTY
            /\ FailedWith(c, InputErrors(c)) => c.fd = StdFds
            /\ (c.st = "redir_err" \/ FailedWith(c, ErrorErrors(c))) =>
                  /\ c.fd.in = in /\ c.fd.out = o /\ c.fd.err = TTY
                  /\ o # TTY => files[o].exists
                  /\ (o # TTY /\ c.redir.output_mode = TRUNCATE /\ Alone(s)) =>
                        files[o] = Empty

\* the lines whose operators are out of order: `ls 2> e > f < /n` touches no
\* file, since /n cannot be opened, so that f is never there; `ls 2> e > /t`
\* touches no file, since /t cannot be opened for writing
C22_FirstFailureStops ==
    \A s \in Slots :
        LET c == children[s]
        IN  /\ (c.st # "none" /\ (c.redir.input_file = D_n \/ c.redir.output_file = D_t))
               => (children'[s] # c => files' = files)
            /\ Join(<<W_ls, OP_ERR, F_e, OP_OUT, F_f, OP_IN, D_n>>) \in script
               => \A p \in FilePaths : files[p].exists => p = Path(D_root, F_e)

(* C22: the child applies the redirections in the order input, output, error,
   whatever the order of the operators on the line, and stops at the first
   failure: a failed input leaves the output and error targets neither created
   nor truncated, a failed output leaves the error target untouched, and a
   target opened before the failure stays created or truncated although the
   command never runs *)
C22_RedirectionOrder ==
    /\ []C22_Place
    /\ [][C22_RedirectStep /\ C22_NothingAfterFailure /\ C22_FirstFailureStops]_vars

\* `ls 2> e > f < /n` has failed at its input while e holds what `nx 2> e`
\* wrote and f is not there
C22_Witness ==
    \E s \in Slots :
        /\ FailedWith(children[s], {InOpenError(D_n)})
        /\ children[s].redir.output_file = F_f
        /\ children[s].redir.error_file = F_e
        /\ files[Path(D_root, F_e)].data # <<>>
        /\ ~files[Path(D_root, F_f)].exists

====
